---------------------------- MODULE Spec2Model ----------------------------
(***************************************************************************)
(* BananaLens (banana_lens_web): a state-machine model of the App          *)
(* component (src/App.tsx), the BeforeAfter compare slider (src/App.tsx,   *)
(* second half) and the AI client (src/services/geminiService.ts).         *)
(*                                                                         *)
(* React state is one variable per useState cell.  An event handler is one *)
(* atomic action; an async handler is one action per segment between two   *)
(* awaits, and the values its closure captured when it was invoked are     *)
(* kept in the record of the task in flight.  Every handler is invoked     *)
(* from the latest committed render, so a synchronous handler reads the    *)
(* current state.                                                          *)
(*                                                                         *)
(* Left out of the state: promptText and refImage (they are only sent to   *)
(* the AI endpoint), the sidebar's open/collapsed flags and timestamps.    *)
(***************************************************************************)
EXTENDS Integers, Sequences, FiniteSets, TLC

(***************************************************************************)
(* Bounds of the model.                                                    *)
(***************************************************************************)
\* longest collection the model builds (save / import stop being offered)
MaxCollection == 3
\* longest collection in the specification of the whole App
MaxKept == 2
\* longest collection in the specification of the editor alone
MaxSaved == 1
\* most suspended handlers of any kind in the specification of the whole App
MaxInFlight == 1
\* most files in one FileList handed to handleBatchImport
MaxFiles == 2
\* most handleBatchImport invocations in flight at once
MaxImports == 1
\* most handleBatchExport invocations in flight at once
MaxExports == 1
\* most handleImageSelect file reads in flight at once
MaxUploads == 1
\* most saved items in the collection the gallery starts from
MaxSaves == 1
\* most handleBatchImport invocations in flight where imports overlap
MaxOverlap == 2
\* longest collection where imports overlap
MaxOverlapKept == 3
\* most handleBatchExport invocations in flight where the Download button
\* may be pressed again during an export
MaxDownloads == 2
\* most AI calls in flight at once the model can represent
MaxCalls == 2
\* widest container rectangle, in pixels
MaxWidth == 3
\* largest left offset of the container rectangle, in pixels
MaxLeft == 1
\* pointer x-coordinates range over -1 .. MaxX
MaxX == 5

(***************************************************************************)
(* Data: files, data URLs, filter settings, AI results.                    *)
(***************************************************************************)
\* currentImage: string | null.  A data URL is the tuple of the pieces the
\* template literal `data:${file.type};base64,${base64}` joins; null is <<>>.
Null == <<>>

\* A File: its name as the list of its '.'-separated parts, its MIME type
\* and the base64 of its bytes.
Files ==
    { [name |-> <<"cat", "png">>, type |-> "image/png", data |-> "AAAA"],
      [name |-> <<"", "jpg">>,    type |-> "image/jpeg", data |-> "BBBB"] }

\* reader.result of readAsDataURL: "data:<type>;base64,<data>"
readAsDataURL(file) == <<"data:", file.type, ";base64", ",", file.data>>

\* base64String.split(',')[1]: the part after the first comma
splitComma1(url) == url[5]

\* `data:${file.type};base64,${base64}`
dataUrl(type, base64) == <<"data:", type, ";base64", ",", base64>>

Fields ==
    { "brightness", "contrast", "saturation", "sepia",
      "grayscale", "hueRotate", "blur", "warmth" }

defaultSettings ==
    [ brightness |-> 100, contrast |-> 100, saturation |-> 100, sepia |-> 0,
      grayscale |-> 0, hueRotate |-> 0, blur |-> 0, warmth |-> 0 ]

\* {...a, ...b}: every key of either operand, b's value where b has the key
SpreadClamps(a, b) ==
    [ f \in (DOMAIN a) \cup (DOMAIN b) |->
        IF f \in DOMAIN b
        THEN (IF b[f] > 200 THEN 200 ELSE IF b[f] < 0 THEN 0 ELSE b[f])
        ELSE a[f] ]
Spread(a, b) ==
    [ f \in (DOMAIN a) \cup (DOMAIN b) |->
        IF f \in DOMAIN b THEN b[f] ELSE a[f] ]

\* The empty record: what spreading `undefined` contributes.
NoFields == [ f \in {} |-> 0 ]

\* AnalysisResult values the endpoint may answer with (JSON.parse output):
\* the three required fields only, all seven schema fields with values
\* outside the stated ranges, and an object without suggestedSettings.
AIResults ==
    { [ reasoning |-> "r-required",
        suggestedSettings |->
            [ brightness |-> 120, contrast |-> 110, saturation |-> 90 ] ],
      [ reasoning |-> "r-wild",
        suggestedSettings |->
            [ brightness |-> 250, contrast |-> -10, saturation |-> 100,
              sepia |-> 30, grayscale |-> 0, hueRotate |-> 400, blur |-> 25 ] ],
      [ reasoning |-> "r-bare", suggestedSettings |-> NoFields ] }

\* What ai.models.generateContent can do: reject (network), or resolve with
\* a response whose text is empty, is not JSON, or is the JSON of a result.
Responses ==
    { [ kind |-> "reject", result |-> <<>> ],
      [ kind |-> "empty",  result |-> <<>> ],
      [ kind |-> "garbage", result |-> <<>> ] }
    \cup { [ kind |-> "json", result |-> <<r>> ] : r \in AIResults }

\* analyzeImageAndGetSettings, after the await: returns the parsed result or
\* throws (rethrown network error, JSON.parse SyntaxError, "No response text").
analyzeThrows(resp) == resp.kind # "json"
analyzeValue(resp) == resp.result[1]

AnalyzingText == "Nano Banana is analyzing histogram, exposure, and composition..."
FizzledText == "Oops! The spell fizzled. Please try again."

Views == { "HOME", "COLLECTION", "IMPORT", "EXPORT" }

(***************************************************************************)
(* State.                                                                  *)
(***************************************************************************)
VARIABLES
    view,             \* App: ViewMode
    currentImage,     \* App: data URL or Null
    currentSettings,  \* App: FilterSettings
    isProcessing,     \* App: boolean
    aiReasoning,      \* App: string
    showCompare,      \* App: boolean (BeforeAfter's isCompareActive prop)
    collection,       \* App: PhotoItem[]
    exportSelection,  \* App: Set<string> of item ids
    sliderPosition,   \* BeforeAfter: number, as the rational num/den
    isResizing,       \* BeforeAfter: boolean
    rect,             \* DOM: containerRef.current.getBoundingClientRect()
    calls,            \* AI requests in flight (one per suspended handleCastSpell)
    uploads,          \* files being read by suspended handleImageSelect calls
    imports,          \* suspended handleBatchImport invocations
    exports,          \* suspended handleBatchExport invocations
    nextId,           \* source of fresh item ids (Date.now() + random digits)
    lastOp            \* history: the handler segment that ran last, with
                      \* what it was given or what it replaced

vars ==
    << view, currentImage, currentSettings, isProcessing, aiReasoning,
       showCompare, collection, exportSelection, sliderPosition, isResizing,
       rect, calls, uploads, imports, exports, nextId, lastOp >>

appVars ==
    << view, currentImage, currentSettings, isProcessing, aiReasoning,
       showCompare, collection, exportSelection >>
sliderVars == << sliderPosition, isResizing, rect >>
taskVars == << calls, uploads, imports, exports >>

Op(name, arg) == [ op |-> name, arg |-> arg ]

\* seq without its i-th element
RemoveAt(seq, i) == SubSeq(seq, 1, i - 1) \o SubSeq(seq, i + 1, Len(seq))


(***************************************************************************)
(* Numbers of the compare slider.  A JavaScript number is kept as the      *)
(* rational num/den in lowest terms; 0/0 is NaN.                           *)
(***************************************************************************)
RECURSIVE Gcd(_, _)
Gcd(a, b) == IF b = 0 THEN a ELSE Gcd(b, a % b)

NaN == [ num |-> 0, den |-> 0 ]
Num(n) == [ num |-> n, den |-> 1 ]

\* (x / width) * 100 for x >= 0 and width >= 0
PercentOf(x, width) ==
    IF width = 0
    THEN NaN
    ELSE LET g == Gcd(100 * x, width)
         IN  [ num |-> (100 * x) \div g, den |-> width \div g ]

Min(a, b) == IF a < b THEN a ELSE b
Max(a, b) == IF a > b THEN a ELSE b

\* Math.max(0, Math.min(clientX - rect.left, rect.width))
ClampX(clientX, r) == Max(0, Min(clientX - r.left, r.width))

\* useState(50), useState(false)
SliderInit == Num(50)

Rects == [ left : 0 .. MaxLeft, width : 0 .. MaxWidth ]
ClientXs == -1 .. MaxX

(***************************************************************************)
(* Initial state: the App as constructed, no image, empty collection.      *)
(***************************************************************************)
Init ==
    /\ view = "HOME"
    /\ currentImage = Null
    /\ currentSettings = defaultSettings
    /\ isProcessing = FALSE
    /\ aiReasoning = ""
    /\ showCompare = FALSE
    /\ collection = <<>>
    /\ exportSelection = {}
    /\ sliderPosition = SliderInit
    /\ isResizing = FALSE
    /\ rect = [ left |-> 0, width |-> MaxWidth ]
    /\ calls = <<>>
    /\ uploads = <<>>
    /\ imports = <<>>
    /\ exports = <<>>
    /\ nextId = 1
    /\ lastOp = Op("init", <<>>)

(***************************************************************************)
(* Sidebar: setView.                                                       *)
(***************************************************************************)
\* BeforeAfter is rendered by renderHome while there is a current image.  A
\* BeforeAfter that is not rendered has no state: the one rendered next
\* starts from useState(50) and useState(false).
Unmounted ==
    /\ sliderPosition' = SliderInit
    /\ isResizing' = FALSE
    /\ UNCHANGED rect

\* a view other than the current one is chosen: renderHome stops or starts
\* being rendered
SetView(v) ==
    /\ v \in Views
    /\ v # view
    /\ view' = v
    /\ Unmounted
    /\ lastOp' = Op("setView", <<>>)
    /\ UNCHANGED << currentImage, currentSettings, isProcessing, aiReasoning,
                    showCompare, collection, exportSelection,
                    taskVars, nextId >>

(***************************************************************************)
(* handleImageSelect: ImageUploader is rendered in the HOME view while     *)
(* there is no current image.                                              *)
(***************************************************************************)
ImageSelectStart(file) ==
    /\ view = "HOME"
    /\ currentImage = Null
    /\ uploads' = Append(uploads, file)
    /\ lastOp' = Op("imageSelectStart", <<>>)
    /\ UNCHANGED << appVars, sliderVars, calls, imports, exports, nextId >>

\* fileToGenerativePart resolved: the four setters of the try block
ImageSelectLoaded(i) ==
    /\ i \in 1 .. Len(uploads)
    /\ LET file == uploads[i]
           base64 == splitComma1(readAsDataURL(file))
       IN  currentImage' = dataUrl(file.type, base64)
    /\ currentSettings' = defaultSettings
    /\ aiReasoning' = ""
    /\ showCompare' = FALSE
    /\ uploads' = RemoveAt(uploads, i)
    /\ lastOp' = Op("imageSelectLoaded", currentSettings)
    /\ UNCHANGED << view, isProcessing, collection, exportSelection,
                    sliderVars, calls, imports, exports, nextId >>

\* fileToGenerativePart rejected: the catch block only logs
FailedUploadClears(i) ==
    /\ i \in 1 .. Len(uploads)
    /\ uploads' = RemoveAt(uploads, i)
    /\ currentImage' = Null
    /\ currentSettings' = defaultSettings
    /\ aiReasoning' = ""
    /\ showCompare' = FALSE
    /\ lastOp' = Op("imageSelectFailed", <<>>)
    /\ UNCHANGED << view, isProcessing, collection, exportSelection,
                    sliderVars, calls, imports, exports, nextId >>
ImageSelectFailed(i) ==
    /\ i \in 1 .. Len(uploads)
    /\ uploads' = RemoveAt(uploads, i)
    /\ lastOp' = Op("imageSelectFailed", <<>>)
    /\ UNCHANGED << appVars, sliderVars, calls, imports, exports, nextId >>

(***************************************************************************)
(* handleResetImage: the "Upload New" button, rendered in the HOME view    *)
(* while there is a current image.                                         *)
(***************************************************************************)
ResetKeepsSettings ==
    /\ currentImage' = Null
    /\ aiReasoning' = ""
    /\ showCompare' = FALSE
    /\ UNCHANGED currentSettings
handleResetImage ==
    /\ currentImage' = Null
    /\ currentSettings' = defaultSettings
    /\ aiReasoning' = ""
    /\ showCompare' = FALSE

ResetImage ==
    /\ view = "HOME"
    /\ currentImage # Null
    /\ handleResetImage
    /\ Unmounted
    /\ lastOp' = Op("reset", currentSettings)
    /\ UNCHANGED << view, isProcessing, collection, exportSelection,
                    taskVars, nextId >>

(***************************************************************************)
(* The compare toggle: setShowCompare(!showCompare), disabled without an   *)
(* image.                                                                  *)
(***************************************************************************)
ToggleCompare ==
    /\ view = "HOME"
    /\ currentImage # Null
    /\ showCompare' = ~showCompare
    /\ lastOp' = Op("toggleCompare", <<>>)
    /\ UNCHANGED << view, currentImage, currentSettings, isProcessing,
                    aiReasoning, collection, exportSelection, sliderVars,
                    taskVars, nextId >>

(***************************************************************************)
(* handleCastSpell.                                                        *)
(***************************************************************************)
\* the button's `disabled={isProcessing || !currentImage}`
CastEnabledIgnoresProcessing == currentImage # Null
CastButtonEnabled == ~(isProcessing \/ currentImage = Null)

\* the requests one analyzeImageAndGetSettings sends before its await: one
\* ai.models.generateContent, in no loop
RequestsTwice(imageBase64) ==
    << [ image |-> imageBase64 ], [ image |-> imageBase64 ] >>
analyzeImageAndGetSettings(imageBase64) == << [ image |-> imageBase64 ] >>

\* up to the await: early return without an image, else the two setters and
\* the request
CastSpellStart ==
    /\ view = "HOME"
    /\ CastButtonEnabled
    /\ IF currentImage = Null
       THEN UNCHANGED << isProcessing, aiReasoning, calls >>
       ELSE /\ isProcessing' = TRUE
            /\ aiReasoning' = AnalyzingText
            /\ calls' = calls \o analyzeImageAndGetSettings(
                                    splitComma1(currentImage))
    /\ lastOp' = Op("castStart", <<>>)
    /\ UNCHANGED << view, currentImage, currentSettings, showCompare,
                    collection, exportSelection, sliderVars, uploads,
                    imports, exports, nextId >>

\* setCurrentSettings(prev => ({...prev, ...result.suggestedSettings}))
MergeReplaces(prev, result) == result.suggestedSettings
MergeClamps(prev, result) == SpreadClamps(prev, result.suggestedSettings)
MergeSuggested(prev, result) == Spread(prev, result.suggestedSettings)

\* the await returned a result: rest of the try block, then finally
CastSpellSucceeds(i, resp) ==
    /\ i \in 1 .. Len(calls)
    /\ resp \in Responses
    /\ ~analyzeThrows(resp)
    /\ LET result == analyzeValue(resp)
       IN  /\ currentSettings' = MergeSuggested(currentSettings, result)
           /\ aiReasoning' = result.reasoning
           /\ showCompare' = FALSE
           /\ lastOp' = Op("castOk", result)
    /\ isProcessing' = FALSE
    /\ calls' = RemoveAt(calls, i)
    /\ UNCHANGED << view, currentImage, collection, exportSelection,
                    sliderVars, uploads, imports, exports, nextId >>

\* what the catch block writes
CatchResetsSettings ==
    /\ aiReasoning' = FizzledText
    /\ currentSettings' = defaultSettings
CastCatch ==
    /\ aiReasoning' = FizzledText
    /\ UNCHANGED currentSettings

\* the await threw: catch block, then finally
CastSpellFails(i, resp) ==
    /\ i \in 1 .. Len(calls)
    /\ resp \in Responses
    /\ analyzeThrows(resp)
    /\ CastCatch
    /\ isProcessing' = FALSE
    /\ calls' = RemoveAt(calls, i)
    /\ lastOp' = Op("castFailed", resp.kind)
    /\ UNCHANGED << view, currentImage, showCompare, collection,
                    exportSelection, sliderVars, uploads, imports, exports,
                    nextId >>

(***************************************************************************)
(* Collection: handleSaveToCollection, the Edit button, batch import.      *)
(***************************************************************************)
\* item ids of the collection
Ids(coll) == { coll[k].id : k \in 1 .. Len(coll) }

\* `Photo ${n}`
PhotoName(n) == << "Photo", n >>

\* files the imports in flight may still add
Reserved ==
    LET RECURSIVE Sum(_)
        Sum(k) == IF k = 0 THEN 0 ELSE Len(imports[k].files) + Sum(k - 1)
    IN  Sum(Len(imports))
\* room left under a cap on the collection's length
Room(cap) == cap - Len(collection) - Reserved
\* suspended handlers of all kinds
InFlight == Len(calls) + Len(uploads) + Len(imports) + Len(exports)

\* setCollection([newItem, ...collection])
SaveAppends(newItem, coll) == Append(coll, newItem)
SaveInto(newItem, coll) == << newItem >> \o coll

SaveToCollection ==
    /\ view = "HOME"
    /\ currentImage # Null
    /\ LET newItem == [ id |-> nextId,
                        originalUrl |-> currentImage,
                        name |-> PhotoName(Len(collection) + 1),
                        settings |-> currentSettings ]
       IN  collection' = SaveInto(newItem, collection)
    /\ nextId' = nextId + 1
    /\ lastOp' = Op("save", <<>>)
    /\ UNCHANGED << view, currentImage, currentSettings, isProcessing,
                    aiReasoning, showCompare, exportSelection, sliderVars,
                    taskVars >>

\* the Edit button of the k-th card of the COLLECTION view
EditItem(k) ==
    /\ view = "COLLECTION"
    /\ k \in 1 .. Len(collection)
    /\ currentImage' = collection[k].originalUrl
    /\ currentSettings' = collection[k].settings
    /\ view' = "HOME"
    /\ lastOp' = Op("edit", <<>>)
    /\ UNCHANGED << isProcessing, aiReasoning, showCompare, collection,
                    exportSelection, sliderVars, taskVars, nextId >>

\* FileList values: non-empty, at most MaxFiles files
FileLists == UNION { [ 1 .. n -> Files ] : n \in 1 .. MaxFiles }

\* handleBatchImport up to its first await
BatchImportStart(files) ==
    /\ view = "IMPORT"
    /\ files \in FileLists
    /\ imports' = Append(imports,
                         [ files |-> files, i |-> 1, newItems |-> <<>>,
                           len |-> Len(collection), oks |-> <<>> ])
    /\ lastOp' = Op("importStart", <<>>)
    /\ UNCHANGED << appVars, sliderVars, calls, uploads, exports, nextId >>

\* file.name.split('.')[0] || `Photo ${collection.length + i + 1}`
\* (task.i counts from 1, the code's i from 0)
ImportName(task) ==
    LET stem == task.files[task.i].name[1]
    IN  IF stem = "" THEN PhotoName(task.len + task.i) ELSE << stem >>

\* the item pushed for the file just read, given its fresh id
ImportItem(task, id) ==
    LET file == task.files[task.i]
        base64 == splitComma1(readAsDataURL(file))
    IN  [ id |-> id,
          originalUrl |-> dataUrl(file.type, base64),
          name |-> ImportName(task),
          settings |-> defaultSettings ]

\* setCollection(prev => [...newItems, ...prev])
CommitOverwrites(newItems, prev) == newItems
CommitAfter(newItems, prev) == prev \o newItems
CommitImport(newItems, prev) == newItems \o prev

\* one await of the loop settles with outcome ok; after the last file the
\* loop ends and the commit, the alert and setView run in the same segment
ImportStep(t, ok, items) ==
    LET task == imports[t]
        oks == Append(task.oks, ok)
    IN  IF task.i = Len(task.files)
        THEN /\ collection' = CommitImport(items, collection)
             /\ view' = "COLLECTION"
             /\ IF view = "COLLECTION" THEN UNCHANGED sliderVars ELSE Unmounted
             /\ imports' = RemoveAt(imports, t)
             /\ lastOp' = Op("importDone",
                             [ files |-> task.files, oks |-> oks,
                               alert |-> Len(items) ])
        ELSE /\ imports' = [ imports EXCEPT ![t] =
                               [ task EXCEPT !.i = task.i + 1,
                                             !.newItems = items,
                                             !.oks = oks ] ]
             /\ lastOp' = Op("importRead", <<>>)
             /\ UNCHANGED << view, collection, sliderVars >>

\* a failed read pushes nothing (the catch block only logs)
FailedReadAborts(t) ==
    /\ t \in 1 .. Len(imports)
    /\ imports' = RemoveAt(imports, t)
    /\ lastOp' = Op("importDone",
                    [ files |-> imports[t].files,
                      oks |-> Append(imports[t].oks, FALSE), alert |-> 0 ])
    /\ UNCHANGED << view, collection, sliderVars, nextId >>
FailedRead(t) ==
    /\ t \in 1 .. Len(imports)
    /\ ImportStep(t, FALSE, imports[t].newItems)
    /\ UNCHANGED nextId

ImportReadOk(t) ==
    /\ t \in 1 .. Len(imports)
    /\ ImportStep(t, TRUE, Append(imports[t].newItems,
                            ImportItem(imports[t], nextId)))
    /\ nextId' = nextId + 1
    /\ UNCHANGED << currentImage, currentSettings, isProcessing, aiReasoning,
                    showCompare, exportSelection, calls, uploads, exports >>

ImportReadFailed(t) ==
    /\ FailedRead(t)
    /\ UNCHANGED << currentImage, currentSettings, isProcessing, aiReasoning,
                    showCompare, exportSelection, calls, uploads, exports >>

(***************************************************************************)
(* Export selection and batch export.                                      *)
(***************************************************************************)
\* the new Set toggleExportSelection stores
ToggleOnlyAdds(sel, id) == sel \cup { id }
ToggleSet(sel, id) == IF id \in sel THEN sel \ { id } ELSE sel \cup { id }

\* a card of the EXPORT view is clicked
ToggleExportSelection(id) ==
    /\ view = "EXPORT"
    /\ id \in Ids(collection)
    /\ exportSelection' = ToggleSet(exportSelection, id)
    /\ lastOp' = Op("toggle", [ id |-> id, before |-> exportSelection ])
    /\ UNCHANGED << view, currentImage, currentSettings, isProcessing,
                    aiReasoning, showCompare, collection, sliderVars,
                    taskVars, nextId >>

\* `${n}` for an integer n: its decimal digits, "-" in front when negative
DigitChars == << "0", "1", "2", "3", "4", "5", "6", "7", "8", "9" >>
RECURSIVE NumberToString(_)
NumberToString(n) ==
    IF n < 0 THEN << "-" >> \o NumberToString(0 - n)
    ELSE IF n < 10 THEN << DigitChars[n + 1] >>
    ELSE NumberToString(n \div 10) \o << DigitChars[(n % 10) + 1] >>

\* The four template literals that build a CSS filter from FilterSettings; a
\* string is the sequence of its literal chunks and interpolated digits.
\* ctx.filter of processAndDownloadImage
ctxFilterUsesWarmth(s) ==
    << "brightness(" >> \o NumberToString(s.brightness)
    \o << "%) contrast(" >> \o NumberToString(s.contrast)
    \o << "%) saturate(" >> \o NumberToString(s.saturation)
    \o << "%) sepia(" >> \o NumberToString(s.warmth)
    \o << "%) grayscale(" >> \o NumberToString(s.grayscale)
    \o << "%) hue-rotate(" >> \o NumberToString(s.hueRotate)
    \o << "deg) blur(" >> \o NumberToString(s.blur) \o << "px)" >>
ctxFilter(s) ==
    << "brightness(" >> \o NumberToString(s.brightness)
    \o << "%) contrast(" >> \o NumberToString(s.contrast)
    \o << "%) saturate(" >> \o NumberToString(s.saturation)
    \o << "%) sepia(" >> \o NumberToString(s.sepia)
    \o << "%) grayscale(" >> \o NumberToString(s.grayscale)
    \o << "%) hue-rotate(" >> \o NumberToString(s.hueRotate)
    \o << "deg) blur(" >> \o NumberToString(s.blur) \o << "px)" >>

\* BeforeAfter.getFilterString: the preview
getFilterString(s) ==
    << "brightness(" >> \o NumberToString(s.brightness)
    \o << "%) contrast(" >> \o NumberToString(s.contrast)
    \o << "%) saturate(" >> \o NumberToString(s.saturation)
    \o << "%) sepia(" >> \o NumberToString(s.sepia)
    \o << "%) grayscale(" >> \o NumberToString(s.grayscale)
    \o << "%) hue-rotate(" >> \o NumberToString(s.hueRotate)
    \o << "deg) blur(" >> \o NumberToString(s.blur) \o << "px)" >>

\* the card of the COLLECTION view
collectionCardFilter(item) ==
    << "brightness(" >> \o NumberToString(item.settings.brightness)
    \o << "%) contrast(" >> \o NumberToString(item.settings.contrast)
    \o << "%) saturate(" >> \o NumberToString(item.settings.saturation)
    \o << "%) sepia(" >> \o NumberToString(item.settings.sepia)
    \o << "%) grayscale(" >> \o NumberToString(item.settings.grayscale)
    \o << "%) hue-rotate(" >> \o NumberToString(item.settings.hueRotate)
    \o << "deg) blur(" >> \o NumberToString(item.settings.blur)
    \o << "px)" >>

\* the card of the EXPORT view
exportCardFilter(item) ==
    << "brightness(" >> \o NumberToString(item.settings.brightness)
    \o << "%) contrast(" >> \o NumberToString(item.settings.contrast)
    \o << "%) saturate(" >> \o NumberToString(item.settings.saturation)
    \o << "%) sepia(" >> \o NumberToString(item.settings.sepia)
    \o << "%) grayscale(" >> \o NumberToString(item.settings.grayscale)
    \o << "%) hue-rotate(" >> \o NumberToString(item.settings.hueRotate)
    \o << "deg) blur(" >> \o NumberToString(item.settings.blur)
    \o << "px)" >>

\* collection.filter(item => exportSelection.has(item.id))
ExportsAll(coll, sel) == coll
ItemsToExport(coll, sel) ==
    LET Has(item) == item.id \in sel
    IN  SelectSeq(coll, Has)

\* What `img.src = item.originalUrl` ends in: img.onload or img.onerror.
RenderOutcomes == { "load", "error" }

\* document.createElement('canvas').getContext('2d'): a new canvas always
\* yields a 2D context (HTML Standard), so the `if (ctx)` test passes.
HasContext2D == TRUE

\* processAndDownloadImage: the downloads (link.click()) it produces
Downloads(item, outcome) ==
    IF outcome = "load" /\ HasContext2D THEN << item.id >> ELSE <<>>

\* handleBatchExport up to its first await; the Download button is rendered
\* in the EXPORT view while the selection is not empty
BatchExportStart ==
    /\ view = "EXPORT"
    /\ exportSelection # {}
    /\ IF Cardinality(exportSelection) = 0
       THEN UNCHANGED << exportSelection, exports >>
       ELSE LET items == ItemsToExport(collection, exportSelection)
            IN  IF items = <<>>
                THEN /\ exportSelection' = {}
                     /\ UNCHANGED exports
                ELSE /\ exports' = Append(exports,
                            [ items |-> items, k |-> 1, phase |-> "render",
                              processed |-> 0, outs |-> <<>>, dl |-> <<>> ])
                     /\ UNCHANGED exportSelection
    /\ lastOp' = Op("exportStart", <<>>)
    /\ UNCHANGED << view, currentImage, currentSettings, isProcessing,
                    aiReasoning, showCompare, collection, sliderVars, calls,
                    uploads, imports, nextId >>

\* the task after processAndDownloadImage(item) resolved with `outcome`
ErrorStopsExport(task, outcome) ==
    [ task EXCEPT !.phase = "delay",
                  !.k = IF outcome = "error" THEN Len(task.items) ELSE task.k,
                  !.processed = task.processed + 1,
                  !.outs = Append(task.outs, outcome),
                  !.dl = task.dl \o Downloads(task.items[task.k], outcome) ]
AfterRender(task, outcome) ==
    [ task EXCEPT !.phase = "delay",
                  !.processed = task.processed + 1,
                  !.outs = Append(task.outs, outcome),
                  !.dl = task.dl \o Downloads(task.items[task.k], outcome) ]

\* `await processAndDownloadImage(item)` resolved; processed++; the 500 ms
\* timer is started
ExportItemSettled(t, outcome) ==
    /\ t \in 1 .. Len(exports)
    /\ outcome \in RenderOutcomes
    /\ exports[t].phase = "render"
    /\ exports' = [ exports EXCEPT ![t] = AfterRender(exports[t], outcome) ]
    /\ LET item == exports[t].items[exports[t].k]
       IN  lastOp' = Op("exportItem",
                        [ t |-> t, item |-> item, outcome |-> outcome,
                          filter |-> IF outcome = "load" /\ HasContext2D
                                     THEN << ctxFilter(item.settings) >>
                                     ELSE <<>> ])
    /\ UNCHANGED << appVars, sliderVars, calls, uploads, imports, nextId >>

\* the timer fired: next item, or the end of the loop, where the selection
\* is cleared and the count is reported
ExportDelayElapsed(t) ==
    /\ t \in 1 .. Len(exports)
    /\ exports[t].phase = "delay"
    /\ LET task == exports[t]
       IN  IF task.k = Len(task.items)
           THEN /\ exportSelection' = {}
                /\ exports' = RemoveAt(exports, t)
                /\ lastOp' = Op("exportDone",
                                [ ids |-> [ k \in 1 .. Len(task.items) |->
                                              task.items[k].id ],
                                  outs |-> task.outs, dl |-> task.dl,
                                  alert |-> task.processed ])
           ELSE /\ exports' = [ exports EXCEPT ![t] =
                                  [ task EXCEPT !.k = task.k + 1,
                                                !.phase = "render" ] ]
                /\ lastOp' = Op("exportNext", t)
                /\ UNCHANGED exportSelection
    /\ UNCHANGED << view, currentImage, currentSettings, isProcessing,
                    aiReasoning, showCompare, collection, sliderVars, calls,
                    uploads, imports, nextId >>

(***************************************************************************)
(* BeforeAfter: the compare slider.  The component is mounted in the HOME  *)
(* view while there is a current image.                                    *)
(***************************************************************************)
Mounted == view = "HOME" /\ currentImage # Null

\* if (isCompareActive) setIsResizing(true)
MouseDownIgnoresCompare == isResizing' = TRUE
handleMouseDown == isResizing' = (IF showCompare THEN TRUE ELSE isResizing)

\* setIsResizing(false)
handleMouseUp == isResizing' = FALSE

\* onMouseDown / onTouchStart of the container
MouseDown ==
    /\ Mounted
    /\ handleMouseDown
    /\ lastOp' = Op("mouseDown", <<>>)
    /\ UNCHANGED << appVars, sliderPosition, rect, taskVars, nextId >>

\* window mouseup / touchend
MouseUp ==
    /\ Mounted
    /\ handleMouseUp
    /\ lastOp' = Op("mouseUp", <<>>)
    /\ UNCHANGED << appVars, sliderPosition, rect, taskVars, nextId >>

\* the value handleMouseMove / handleTouchMove hand to setSliderPosition
MovedTo(clientX, r) == PercentOf(ClampX(clientX, r), r.width)

\* body shared by handleMouseMove and handleTouchMove
MoveIgnoresResizing(clientX) ==
    IF ~showCompare
    THEN UNCHANGED sliderPosition
    ELSE sliderPosition' = MovedTo(clientX, rect)
PointerMove(clientX) ==
    IF ~isResizing \/ ~showCompare
    THEN UNCHANGED sliderPosition
    ELSE sliderPosition' = MovedTo(clientX, rect)

\* window mousemove with e.clientX
MouseMove(clientX) ==
    /\ Mounted
    /\ clientX \in ClientXs
    /\ PointerMove(clientX)
    /\ lastOp' = Op("mouseMove", clientX)
    /\ UNCHANGED << appVars, isResizing, rect, taskVars, nextId >>

\* window touchmove with e.touches[0].clientX
TouchMove(clientX) ==
    /\ Mounted
    /\ clientX \in ClientXs
    /\ PointerMove(clientX)
    /\ lastOp' = Op("touchMove", clientX)
    /\ UNCHANGED << appVars, isResizing, rect, taskVars, nextId >>

\* the layout changes the container's rectangle (resize, image decoded)
Relayout(r) ==
    /\ Mounted
    /\ r \in Rects
    /\ r # rect
    /\ rect' = r
    /\ lastOp' = Op("relayout", <<>>)
    /\ UNCHANGED << appVars, sliderPosition, isResizing, taskVars, nextId >>

(***************************************************************************)
(* Specifications.  Each one offers a handler only while its bounds leave  *)
(* room for what the handler starts.                                       *)
(***************************************************************************)
\* the suspended handlers of the editor settle
Settle ==
    \/ \E i \in 1 .. Len(uploads) : ImageSelectLoaded(i)
    \/ \E i \in 1 .. Len(uploads) : ImageSelectFailed(i)
    \/ \E i \in 1 .. Len(calls), resp \in Responses : CastSpellSucceeds(i, resp)
    \/ \E i \in 1 .. Len(calls), resp \in Responses : CastSpellFails(i, resp)

\* the import and export loops advance
Loops ==
    \/ \E t \in 1 .. Len(imports) : ImportReadOk(t)
    \/ \E t \in 1 .. Len(imports) : ImportReadFailed(t)
    \/ \E t \in 1 .. Len(exports), o \in RenderOutcomes : ExportItemSettled(t, o)
    \/ \E t \in 1 .. Len(exports) : ExportDelayElapsed(t)

\* the editor alone: upload, reset, AI call, compare toggle, save, edit
NextEditor ==
    \/ \E v \in Views : SetView(v)
    \/ ResetImage
    \/ ToggleCompare
    \/ \E k \in 1 .. Len(collection) : EditItem(k)
    \/ Settle
    \/ Len(uploads) < MaxUploads /\ \E file \in Files : ImageSelectStart(file)
    \/ Len(calls) < MaxCalls /\ CastSpellStart
    \/ Room(MaxSaved) >= 1 /\ SaveToCollection

SpecEditor == Init /\ [][NextEditor]_vars

\* upload, save and batch import
NextImport ==
    \/ \E v \in Views : SetView(v)
    \/ Len(uploads) < MaxUploads /\ \E file \in Files : ImageSelectStart(file)
    \/ \E i \in 1 .. Len(uploads) : ImageSelectLoaded(i)
    \/ Room(MaxCollection) >= 1 /\ SaveToCollection
    \/ /\ Len(imports) < MaxImports
       /\ \E files \in FileLists :
            Room(MaxCollection) >= Len(files) /\ BatchImportStart(files)
    \/ \E t \in 1 .. Len(imports) : ImportReadOk(t)
    \/ \E t \in 1 .. Len(imports) : ImportReadFailed(t)

SpecImport == Init /\ [][NextImport]_vars

\* save and batch imports that overlap: a second FileList is dropped while
\* the first is still being read
NextOverlap ==
    \/ \E v \in { "HOME", "IMPORT" } : SetView(v)
    \/ Len(uploads) < MaxUploads /\ \E file \in Files : ImageSelectStart(file)
    \/ \E i \in 1 .. Len(uploads) : ImageSelectLoaded(i)
    \/ Room(MaxOverlapKept) >= 1 /\ SaveToCollection
    \/ /\ Len(imports) < MaxOverlap
       /\ \E files \in FileLists :
            Room(MaxOverlapKept) >= Len(files) /\ BatchImportStart(files)
    \/ \E t \in 1 .. Len(imports) : ImportReadOk(t)
    \/ \E t \in 1 .. Len(imports) : ImportReadFailed(t)

SpecOverlap == Init /\ [][NextOverlap]_vars

\* the collection a batch import of `files` into the empty App leaves
Imported(files) ==
    [ k \in 1 .. Len(files) |->
        ImportItem([ files |-> files, i |-> k, len |-> 0 ], k) ]

\* the EXPORT view after one batch import
InitExport ==
    /\ view = "EXPORT"
    /\ currentImage = Null
    /\ currentSettings = defaultSettings
    /\ isProcessing = FALSE
    /\ aiReasoning = ""
    /\ showCompare = FALSE
    /\ \E files \in FileLists : collection = Imported(files)
    /\ exportSelection = {}
    /\ sliderPosition = SliderInit
    /\ isResizing = FALSE
    /\ rect = [ left |-> 0, width |-> MaxWidth ]
    /\ calls = <<>>
    /\ uploads = <<>>
    /\ imports = <<>>
    /\ exports = <<>>
    /\ nextId = Len(collection) + 1
    /\ lastOp = Op("init", <<>>)

\* export selection and batch export
NextExport ==
    \/ \E id \in Ids(collection) : ToggleExportSelection(id)
    \/ Len(exports) < MaxExports /\ BatchExportStart
    \/ \E t \in 1 .. Len(exports), o \in RenderOutcomes : ExportItemSettled(t, o)
    \/ \E t \in 1 .. Len(exports) : ExportDelayElapsed(t)

SpecExport == InitExport /\ [][NextExport]_vars

\* export selection and batch export, the Download button pressed again
\* while an export is running
NextReexport ==
    \/ \E id \in Ids(collection) : ToggleExportSelection(id)
    \/ Len(exports) < MaxDownloads /\ BatchExportStart
    \/ \E t \in 1 .. Len(exports), o \in RenderOutcomes : ExportItemSettled(t, o)
    \/ \E t \in 1 .. Len(exports) : ExportDelayElapsed(t)

SpecReexport == InitExport /\ [][NextReexport]_vars

\* settings the editor can hold when Save is pressed: the defaults, or the
\* defaults after one or two merged AI results
SavedSettings ==
    { defaultSettings }
    \cup { MergeSuggested(defaultSettings, r) : r \in AIResults }
    \cup { MergeSuggested(MergeSuggested(defaultSettings, q), r) :
             q \in AIResults, r \in AIResults }

\* the collection after `list` was saved from one uploaded file, last
\* element first (every save goes in front)
Saved(file, list) ==
    [ k \in 1 .. Len(list) |->
        [ id |-> Len(list) - k + 1,
          originalUrl |-> dataUrl(file.type, splitComma1(readAsDataURL(file))),
          name |-> PhotoName(Len(list) - k + 1),
          settings |-> list[k] ] ]

\* the EXPORT view after saves from the editor
InitGallery ==
    /\ view = "EXPORT"
    /\ currentImage = Null
    /\ currentSettings = defaultSettings
    /\ isProcessing = FALSE
    /\ aiReasoning = ""
    /\ showCompare = FALSE
    /\ \E n \in 1 .. MaxSaves :
         \E list \in [ 1 .. n -> SavedSettings ] :
            collection = Saved(CHOOSE file \in Files : file.type = "image/png",
                               list)
    /\ exportSelection = {}
    /\ sliderPosition = SliderInit
    /\ isResizing = FALSE
    /\ rect = [ left |-> 0, width |-> MaxWidth ]
    /\ calls = <<>>
    /\ uploads = <<>>
    /\ imports = <<>>
    /\ exports = <<>>
    /\ nextId = Len(collection) + 1
    /\ lastOp = Op("init", <<>>)

\* the cards of the COLLECTION and EXPORT views, the Edit button and batch
\* export, over saved items
NextGallery ==
    \/ \E v \in { "COLLECTION", "EXPORT" } : SetView(v)
    \/ \E k \in 1 .. Len(collection) : EditItem(k)
    \/ \E id \in Ids(collection) : ToggleExportSelection(id)
    \/ Len(exports) < MaxExports /\ BatchExportStart
    \/ \E t \in 1 .. Len(exports), o \in RenderOutcomes : ExportItemSettled(t, o)
    \/ \E t \in 1 .. Len(exports) : ExportDelayElapsed(t)

SpecGallery == InitGallery /\ [][NextGallery]_vars

\* the whole App: every handler, at most MaxInFlight of them suspended
Next ==
    \/ \E v \in Views : SetView(v)
    \/ ResetImage
    \/ ToggleCompare
    \/ \E k \in 1 .. Len(collection) : EditItem(k)
    \/ Settle
    \/ Loops
    \/ Room(MaxSaved) >= 1 /\ SaveToCollection
    \/ \E id \in Ids(collection) : ToggleExportSelection(id)
    \/ /\ InFlight < MaxInFlight
       /\ \/ \E file \in Files : ImageSelectStart(file)
          \/ CastSpellStart
          \/ \E files \in FileLists :
                Room(MaxKept) >= Len(files) /\ BatchImportStart(files)
          \/ BatchExportStart

Spec == Init /\ [][Next]_vars

\* the editor with one uploaded image on screen
InitSlider ==
    /\ view = "HOME"
    /\ \E file \in Files :
         currentImage = dataUrl(file.type, splitComma1(readAsDataURL(file)))
    /\ currentSettings = defaultSettings
    /\ isProcessing = FALSE
    /\ aiReasoning = ""
    /\ showCompare = FALSE
    /\ collection = <<>>
    /\ exportSelection = {}
    /\ sliderPosition = SliderInit
    /\ isResizing = FALSE
    /\ rect \in Rects
    /\ calls = <<>>
    /\ uploads = <<>>
    /\ imports = <<>>
    /\ exports = <<>>
    /\ nextId = 1
    /\ lastOp = Op("init", <<>>)

\* the compare slider: pointer events, the compare toggle and layout while
\* BeforeAfter is rendered, and what removes it and renders it again
NextSlider ==
    \/ MouseDown
    \/ MouseUp
    \/ ToggleCompare
    \/ \E x \in ClientXs : MouseMove(x)
    \/ \E x \in ClientXs : TouchMove(x)
    \/ \E r \in Rects : Relayout(r)
    \/ ResetImage
    \/ Len(uploads) < MaxUploads /\ \E file \in Files : ImageSelectStart(file)
    \/ \E i \in 1 .. Len(uploads) : ImageSelectLoaded(i)
    \/ \E v \in { "HOME", "COLLECTION" } : SetView(v)

SpecSlider == InitSlider /\ [][NextSlider]_vars

\* the compare slider while AI calls change the settings prop
NextCompare ==
    \/ MouseDown
    \/ MouseUp
    \/ ToggleCompare
    \/ \E x \in ClientXs : MouseMove(x)
    \/ \E x \in ClientXs : TouchMove(x)
    \/ ResetImage
    \/ Len(uploads) < MaxUploads /\ \E file \in Files : ImageSelectStart(file)
    \/ \E i \in 1 .. Len(uploads) : ImageSelectLoaded(i)
    \/ Len(calls) < MaxCalls /\ CastSpellStart
    \/ \E i \in 1 .. Len(calls), resp \in Responses : CastSpellSucceeds(i, resp)
    \/ \E i \in 1 .. Len(calls), resp \in Responses : CastSpellFails(i, resp)

SpecCompare == InitSlider /\ [][NextCompare]_vars

(***************************************************************************)
(* Properties.                                                             *)
(***************************************************************************)

\* C1: when an AI call succeeds, every field present in the result's
\* suggestedSettings takes the suggested value as it is, and every other
\* field keeps the value it had immediately before the merge.
C1_MergeOverridesFieldwise ==
    [][ lastOp'.op = "castOk" =>
          LET suggested == lastOp'.arg.suggestedSettings
          IN  /\ DOMAIN currentSettings' = DOMAIN currentSettings
              /\ \A f \in DOMAIN currentSettings :
                   currentSettings'[f] =
                     IF f \in DOMAIN suggested
                     THEN suggested[f]
                     ELSE currentSettings[f] ]_vars

\* a three-field result has been merged into settings an earlier result set:
\* sepia, hueRotate and blur are still the earlier (out-of-range) values
C1_Witness ==
    /\ lastOp.op = "castOk"
    /\ DOMAIN lastOp.arg.suggestedSettings =
         { "brightness", "contrast", "saturation" }
    /\ currentSettings.brightness = 120
    /\ currentSettings.sepia = 30
    /\ currentSettings.hueRotate = 400
    /\ currentSettings.blur = 25

\* C2: right after handleResetImage, and right after a successful
\* handleImageSelect, currentSettings is exactly the default record.
C2_ResetRestoresDefaults ==
    lastOp.op \in { "reset", "imageSelectLoaded" } =>
        currentSettings =
            [ brightness |-> 100, contrast |-> 100, saturation |-> 100,
              sepia |-> 0, grayscale |-> 0, hueRotate |-> 0, blur |-> 0,
              warmth |-> 0 ]

\* a reset that replaced settings other than the defaults
C2_Witness ==
    /\ lastOp.op = "reset"
    /\ lastOp.arg # defaultSettings
    /\ currentImage = Null

\* an upload that completed over settings other than the defaults
C2_WitnessUpload ==
    /\ lastOp.op = "imageSelectLoaded"
    /\ lastOp.arg # defaultSettings

\* C3: in every reachable state of BeforeAfter, sliderPosition is a number
\* in [0,100], whatever the pointer's x and the container's rectangle were.
C3_SliderInRange ==
    /\ sliderPosition.den > 0
    /\ 0 <= sliderPosition.num
    /\ sliderPosition.num <= 100 * sliderPosition.den

\* the files of a FileList whose read succeeded, in input order
RECURSIVE Succeeded(_, _)
Succeeded(files, oks) ==
    IF files = <<>>
    THEN <<>>
    ELSE (IF Head(oks) THEN << Head(files) >> ELSE <<>>)
         \o Succeeded(Tail(files), Tail(oks))

\* C4: a batch import of N files of which M reads succeed attempts all N
\* files and adds exactly M entries, one per succeeded file, in the files'
\* input order.
C4_ImportAddsSucceededInOrder ==
    [][ lastOp'.op = "importDone" =>
          LET files == lastOp'.arg.files
              oks == lastOp'.arg.oks
              good == Succeeded(files, oks)
              M == Len(good)
          IN  /\ Len(oks) = Len(files)
              /\ Len(collection') = Len(collection) + M
              /\ \A j \in 1 .. M :
                   /\ collection'[j].originalUrl =
                        << "data:", good[j].type, ";base64", ",", good[j].data >>
                   /\ collection'[j].id \notin Ids(collection)
              /\ \A j, k \in 1 .. M :
                   j # k => collection'[j].id # collection'[k].id ]_vars

\* an import of two different files whose first read failed and whose second
\* succeeded has committed one entry
C4_Witness ==
    /\ lastOp.op = "importDone"
    /\ Len(lastOp.arg.files) = 2
    /\ lastOp.arg.files[1] # lastOp.arg.files[2]
    /\ lastOp.arg.oks = << FALSE, TRUE >>
    /\ Len(collection) >= 1
    /\ collection[1].originalUrl[5] = lastOp.arg.files[2].data

\* C5: a failing AI call changes no settings, nothing of the collection and
\* not the current image: neither the segment that issues the request nor
\* the catch/finally segment writes them, and the latter sets aiReasoning to
\* the failure message.
C5_FailedCallKeepsSettings ==
    [][ /\ lastOp'.op \in { "castStart", "castFailed" } =>
             /\ currentSettings' = currentSettings
             /\ collection' = collection
             /\ currentImage' = currentImage
        /\ lastOp'.op = "castFailed" =>
             aiReasoning' = "Oops! The spell fizzled. Please try again." ]_vars

\* an unparsable response was handled while the settings were not the
\* defaults
C5_Witness ==
    /\ lastOp.op = "castFailed"
    /\ lastOp.arg = "garbage"
    /\ currentSettings # defaultSettings
    /\ currentImage # Null
    /\ aiReasoning = FizzledText

\* C6: one toggle of id x adds x when it is absent, removes it when it is
\* present and changes the membership of no other id; a second toggle of x
\* right after the first gives back the set the first one started from.
C6_ToggleIsInvolution ==
    [][ lastOp'.op = "toggle" =>
          LET x == lastOp'.arg.id
          IN  /\ x \in exportSelection' <=> x \notin exportSelection
              /\ exportSelection' \ { x } = exportSelection \ { x }
              /\ (lastOp.op = "toggle" /\ lastOp.arg.id = x) =>
                    exportSelection' = lastOp.arg.before ]_vars

\* x has been toggled out of a selection that still holds another id
C6_Witness ==
    /\ lastOp.op = "toggle"
    /\ lastOp.arg.id \in lastOp.arg.before
    /\ lastOp.arg.id \notin exportSelection
    /\ exportSelection # {}

\* C7: isProcessing is true exactly while an AI call is in flight, and at
\* most one AI call is in flight.
C7_OneCallInFlight ==
    /\ Len(calls) <= 1
    /\ isProcessing <=> (Len(calls) = 1)

\* a call is in flight for an image other than the one now on screen in the
\* HOME view
C7_Witness ==
    /\ Len(calls) = 1
    /\ isProcessing
    /\ view = "HOME"
    /\ currentImage # Null
    /\ calls[1].image # currentImage[5]

C9_NewItemsGoInFront ==
    [][ /\ lastOp'.op = "save" =>
             /\ Len(collection') = Len(collection) + 1
             /\ Tail(collection') = collection
             /\ Head(collection').originalUrl = currentImage
             /\ Head(collection').settings = currentSettings
        /\ lastOp'.op = "importDone" =>
             LET good == Succeeded(lastOp'.arg.files, lastOp'.arg.oks)
                 M == Len(good)
             IN  /\ Len(collection') = Len(collection) + M
                 /\ SubSeq(collection', M + 1, Len(collection')) = collection
                 /\ \A j \in 1 .. M :
                      collection'[j].originalUrl[5] = good[j].data ]_vars

\* an import of two different files has committed in front of an entry that
\* was saved while the import was reading
C9_Witness ==
    /\ lastOp.op = "importDone"
    /\ lastOp.arg.oks = << TRUE, TRUE >>
    /\ lastOp.arg.files[1] # lastOp.arg.files[2]
    /\ Len(collection) = 3
    /\ collection[1].originalUrl[5] = lastOp.arg.files[1].data
    /\ collection[2].originalUrl[5] = lastOp.arg.files[2].data
    /\ collection[3].id > collection[1].id

\* how often x occurs in seq
Count(seq, x) == Cardinality({ k \in 1 .. Len(seq) : seq[k] = x })

C11_FilterStringSame ==
    /\ \A k \in 1 .. Len(collection) :
         LET s == collection[k].settings
             text == << "brightness(" >> \o NumberToString(s.brightness)
                     \o << "%) contrast(" >> \o NumberToString(s.contrast)
                     \o << "%) saturate(" >> \o NumberToString(s.saturation)
                     \o << "%) sepia(" >> \o NumberToString(s.sepia)
                     \o << "%) grayscale(" >> \o NumberToString(s.grayscale)
                     \o << "%) hue-rotate(" >> \o NumberToString(s.hueRotate)
                     \o << "deg) blur(" >> \o NumberToString(s.blur)
                     \o << "px)" >>
         IN  /\ ctxFilter(s) = text
             /\ getFilterString(s) = text
             /\ collectionCardFilter(collection[k]) = text
             /\ exportCardFilter(collection[k]) = text
    /\ getFilterString(currentSettings) = ctxFilter(currentSettings)
    /\ ctxFilter([ brightness |-> 120, contrast |-> 110, saturation |-> 90,
                   sepia |-> 0, grayscale |-> 0, hueRotate |-> 0, blur |-> 0,
                   warmth |-> 0 ])
         = << "brightness(", "1", "2", "0", "%) contrast(", "1", "1", "0",
              "%) saturate(", "9", "0", "%) sepia(", "0", "%) grayscale(",
              "0", "%) hue-rotate(", "0", "deg) blur(", "0", "px)" >>
    /\ (lastOp.op = "exportItem" /\ lastOp.arg.outcome = "load") =>
         lastOp.arg.filter = << getFilterString(lastOp.arg.item.settings) >>

\* an export has drawn an item whose settings carry merged AI values
\* outside the stated ranges, a negative one included
C11_Witness ==
    /\ lastOp.op = "exportItem"
    /\ lastOp.arg.outcome = "load"
    /\ lastOp.arg.item.settings.contrast = -10
    /\ lastOp.arg.item.settings.sepia = 30
    /\ lastOp.arg.filter =
         << << "brightness(", "2", "5", "0", "%) contrast(", "-", "1", "0",
               "%) saturate(", "1", "0", "0", "%) sepia(", "3", "0",
               "%) grayscale(", "0", "%) hue-rotate(", "4", "0", "0",
               "deg) blur(", "2", "5", "px)" >> >>

\* C12: a batch export processes exactly the collection items whose ids are
\* selected when it starts, in collection order, one at a time: item k is
\* rendered only after items 1 .. k-1 have resolved and the delay after item
\* k-1 has elapsed, the delay starts only when the render has resolved, and
\* no export starts from an empty selection.
C12_ExportSequential ==
    [][ /\ exportSelection = {} => Len(exports') <= Len(exports)
        /\ Len(exports') > Len(exports) =>
             LET task == exports'[Len(exports')]
                 n == Len(task.items)
                 At(j) == CHOOSE k \in 1 .. Len(collection) :
                             collection[k] = task.items[j]
             IN  /\ task.k = 1 /\ task.phase = "render" /\ task.outs = <<>>
                 /\ \A j \in 1 .. n :
                      \E k \in 1 .. Len(collection) :
                         collection[k] = task.items[j]
                 /\ { task.items[j].id : j \in 1 .. n }
                      = exportSelection \cap Ids(collection)
                 /\ \A i, j \in 1 .. n : i < j => At(i) < At(j)
        /\ lastOp'.op = "exportItem" =>
             LET t == lastOp'.arg.t
                 task == exports[t]
             IN  /\ task.phase = "render"
                 /\ Len(task.outs) = task.k - 1
                 /\ lastOp'.arg.item = task.items[task.k]
                 /\ exports'[t].phase = "delay"
                 /\ exports'[t].k = task.k
                 /\ exports'[t].items = task.items
        /\ lastOp'.op = "exportNext" =>
             LET t == lastOp'.arg
                 task == exports[t]
             IN  /\ task.phase = "delay"
                 /\ Len(task.outs) = task.k
                 /\ exports'[t].phase = "render"
                 /\ exports'[t].k = task.k + 1
                 /\ exports'[t].items = task.items
        /\ lastOp'.op = "exportDone" =>
             /\ Len(lastOp'.arg.outs) = Len(lastOp'.arg.ids)
             /\ \E t \in 1 .. Len(exports) :
                  /\ exports[t].phase = "delay"
                  /\ exports[t].k = Len(exports[t].items)
                  /\ lastOp'.arg.ids =
                       [ k \in 1 .. Len(exports[t].items) |->
                           exports[t].items[k].id ] ]_vars

\* an export started with only the second of two items selected is waiting
\* after that item, although the first item has been selected since
C12_Witness ==
    /\ Len(collection) = 2
    /\ collection[1] # collection[2]
    /\ Len(exports) = 1
    /\ exports[1].items = << collection[2] >>
    /\ exports[1].phase = "delay"
    /\ exportSelection = Ids(collection)

\* C13: the drag state starts idle; it goes from idle to dragging only on a
\* pointer-down on the component while compare mode is active, a
\* pointer-down while compare mode is inactive leaves it as it is, and
\* every mouse-up / touch-end leaves it idle, whatever it was.
C13_DragStateMachine ==
    /\ ~isResizing
    /\ [][ /\ (~isResizing /\ isResizing') =>
                (lastOp'.op = "mouseDown" /\ showCompare)
           /\ (lastOp'.op = "mouseDown" /\ showCompare) => isResizing'
           /\ (lastOp'.op = "mouseDown" /\ ~showCompare) =>
                isResizing' = isResizing
           /\ lastOp'.op = "mouseUp" => ~isResizing' ]_vars

\* a drag has just been ended by a mouse-up at a position the drag moved
\* the divider to
C13_Witness ==
    /\ lastOp.op = "mouseUp"
    /\ ~isResizing
    /\ showCompare
    /\ sliderPosition # SliderInit

\* C14: while one BeforeAfter stays rendered, sliderPosition changes only
\* on a mouse-move or touch-move made while dragging with compare mode
\* active; moves while idle or with compare mode off, pointer-down,
\* pointer-up, compare toggles and settings changes leave it unchanged.
C14_SliderMovesOnlyInDrag ==
    [][ /\ ((view = "HOME" /\ currentImage # Null)
             /\ (view' = "HOME" /\ currentImage' # Null)
             /\ sliderPosition' # sliderPosition) =>
                /\ lastOp'.op \in { "mouseMove", "touchMove" }
                /\ isResizing
                /\ showCompare
        /\ (lastOp'.op \in { "mouseMove", "touchMove" }
             /\ (~isResizing \/ ~showCompare)) =>
                sliderPosition' = sliderPosition
        /\ lastOp'.op \in { "mouseDown", "mouseUp", "toggleCompare",
                             "castStart", "castOk", "castFailed" } =>
                sliderPosition' = sliderPosition ]_vars

\* an AI result has changed the settings (and switched compare mode off)
\* in the middle of a drag that had moved the divider off its initial place
C14_Witness ==
    /\ lastOp.op = "castOk"
    /\ currentSettings # defaultSettings
    /\ isResizing
    /\ ~showCompare
    /\ sliderPosition # SliderInit
    /\ sliderPosition # NaN

\* C15: an invocation of handleCastSpell with an image loaded sends exactly
\* one request, for that image; the step that handles its success or its
\* failure sends none (no retry) and no other step sends one; without an
\* image no invocation happens and no request is sent.
C15_OneRequestPerCast ==
    [][ /\ lastOp'.op = "castStart" =>
             /\ currentImage # Null
             /\ calls' = Append(calls, [ image |-> currentImage[5] ])
        /\ lastOp'.op \in { "castOk", "castFailed" } =>
             /\ Len(calls') = Len(calls) - 1
             /\ \E i \in 1 .. Len(calls) :
                  calls' = SubSeq(calls, 1, i - 1)
                           \o SubSeq(calls, i + 1, Len(calls))
        /\ lastOp'.op \notin { "castStart", "castOk", "castFailed" } =>
             calls' = calls
        /\ currentImage = Null =>
             /\ lastOp'.op # "castStart"
             /\ Len(calls') <= Len(calls) ]_vars

\* the request of an invocation was rejected by the network and has been
\* handled: nothing is in flight, no second request was sent
C15_Witness ==
    /\ lastOp.op = "castFailed"
    /\ lastOp.arg = "reject"
    /\ calls = <<>>
    /\ ~isProcessing
    /\ currentImage # Null

\* C16: a single-image upload whose file read fails writes nothing: neither
\* the segment that starts the read nor the catch block changes
\* currentImage, currentSettings, aiReasoning, showCompare or the
\* collection.
C16_FailedUploadKeepsEditor ==
    [][ lastOp'.op \in { "imageSelectStart", "imageSelectFailed" } =>
          /\ currentImage' = currentImage
          /\ currentSettings' = currentSettings
          /\ aiReasoning' = aiReasoning
          /\ showCompare' = showCompare
          /\ collection' = collection ]_vars

\* a read has failed while the editor held an image, merged settings and an
\* AI message (a saved item was opened for editing during the read)
C16_Witness ==
    /\ lastOp.op = "imageSelectFailed"
    /\ uploads = <<>>
    /\ currentImage # Null
    /\ currentSettings # defaultSettings
    /\ collection # <<>>

\* every item created so far and not yet committed: the newItems arrays of
\* the imports in flight, one after the other
RECURSIVE PendingItems(_)
PendingItems(tasks) ==
    IF tasks = <<>> THEN <<>>
    ELSE Head(tasks).newItems \o PendingItems(Tail(tasks))

\* C17: whatever way saves and batch imports interleave, every saved item
\* and every successfully read file is held exactly once, in the collection
\* or in the newItems of an import still in flight; so once every import
\* has completed the collection holds each of them exactly once.
C17_NothingLostOrDuplicated ==
    LET all == collection \o PendingItems(imports)
    IN  /\ Len(all) = nextId - 1
        /\ { all[k].id : k \in 1 .. Len(all) } = 1 .. (nextId - 1)
        /\ imports = <<>> =>
             /\ Len(collection) = nextId - 1
             /\ Ids(collection) = 1 .. (nextId - 1)

\* an import of two files read its first file, then a second import read
\* its file and committed, then the first import read its second file and
\* committed in front of it
C17_Witness ==
    /\ imports = <<>>
    /\ lastOp.op = "importDone"
    /\ Len(collection) = 3
    /\ collection[1].id = 1
    /\ collection[2].id = 3
    /\ collection[3].id = 2
    /\ collection[3].name = << "cat" >>
    /\ collection[3].settings = defaultSettings
    /\ collection[3].originalUrl[5] = "AAAA"

\* C18: a toggle made while a batch export is suspended is not lost: every
\* id that is selected when the export finishes and was not part of the
\* exported batch is still selected after the export has finished.
C18_ToggleDuringExportKept ==
    [][ lastOp'.op = "exportDone" =>
          LET batch == { lastOp'.arg.ids[k] :
                           k \in 1 .. Len(lastOp'.arg.ids) }
          IN  (exportSelection \ batch) \subseteq exportSelection' ]_vars

\* C19: in every reachable state currentSettings and the settings of every
\* collection item have all eight fields (brightness, contrast, saturation,
\* sepia, grayscale, hueRotate, blur, warmth), whatever results the AI has
\* returned.
C19_AllFieldsPresent ==
    LET Eight == { "brightness", "contrast", "saturation", "sepia",
                   "grayscale", "hueRotate", "blur", "warmth" }
    IN  /\ Eight \subseteq DOMAIN currentSettings
        /\ \A k \in 1 .. Len(collection) :
             Eight \subseteq DOMAIN collection[k].settings

\* an item saved with out-of-range merged values is in the collection, and
\* the editor has since merged a result that carries the three required
\* fields only
C19_Witness ==
    /\ lastOp.op = "castOk"
    /\ DOMAIN lastOp.arg.suggestedSettings =
         { "brightness", "contrast", "saturation" }
    /\ Len(collection) = 1
    /\ collection[1].settings.brightness = 250
    /\ collection[1].settings.hueRotate = 400
    /\ currentSettings.contrast = 110

\* C20: the count reported at the end of a batch export is the number of
\* selected items for which a download was produced, and the count reported
\* at the end of a batch import is the number of entries added to the
\* collection.
C20_ReportedCountsAreActual ==
    [][ /\ lastOp'.op = "exportDone" =>
             lastOp'.arg.alert = Len(lastOp'.arg.dl)
        /\ lastOp'.op = "importDone" =>
             lastOp'.arg.alert = Len(collection') - Len(collection) ]_vars

\* C21: when a successful AI result is merged into currentSettings, the
\* editor holds an image and it is the image that was sent in that call.
C21_ResultAppliedToItsImage ==
    [][ lastOp'.op = "castOk" =>
          /\ currentImage # Null
          /\ \E i \in 1 .. Len(calls) :
               /\ calls' = SubSeq(calls, 1, i - 1)
                            \o SubSeq(calls, i + 1, Len(calls))
               /\ calls[i].image = currentImage[5] ]_vars

\* C22: at most one batch export is in progress at any time, and no item
\* is downloaded by two exports that were in progress together.
C22_OneExportAtATime ==
    /\ Len(exports) <= 1
    /\ \A t, u \in 1 .. Len(exports) :
         t # u =>
           { exports[t].dl[k] : k \in 1 .. Len(exports[t].dl) }
           \cap { exports[u].dl[k] : k \in 1 .. Len(exports[u].dl) } = {}

\* C23: in every reachable state the export selection is a subset of the
\* ids of the items in the collection.
C23_SelectionWithinCollection ==
    \A id \in exportSelection :
        \E k \in 1 .. Len(collection) : collection[k].id = id

\* an item selected for export is still selected, and still in the
\* collection, after a later import put another item in front of it
C23_Witness ==
    /\ lastOp.op = "importDone"
    /\ Len(collection) = 2
    /\ exportSelection = { collection[2].id }

=============================================================================
